---- MODULE Spec2Model ----
(***************************************************************************)
(* A model of spawn_vm.py (UoIShieldLabs/ae3gis-virtual-machines): the     *)
(* MAC generator, the host network resolver, the neighbour cache lookup,   *)
(* the probe sweep, the guest launcher and the discovery loop of main();   *)
(* and of main() of spawn_overlays.py, with and without --dry-run.         *)
(*                                                                         *)
(* Time is counted in ticks of half a second: time.sleep(0.5) is one tick, *)
(* one second is two ticks.  IPv4 addresses are their integer values.      *)
(* Text (MAC strings, cache lines) is a sequence of one-character strings. *)
(***************************************************************************)
EXTENDS Integers, Sequences, FiniteSets, TLC

VARIABLES
    pc,          \* position of main()'s thread of control
    name,        \* args.name, a sequence of character codes
    rng,         \* state of the module-level random source
    mac,         \* main: mac
    setup,       \* what launch_vm met on the host: files, tools, PID file
    launched,    \* number of times the hypervisor binary was run
    stderr,      \* messages written to sys.stderr, in order
    exitCode,    \* the process's exit status, -1 while it runs
    exc,         \* the message of the exception being propagated, or None
    subnet,      \* main: subnet (None or a network)
    mac_lower,   \* main: mac_lower
    ip_found,    \* main: ip_found
    now,         \* time.time(), in ticks since main took t0
    next_sweep,  \* main: next_sweep
    timeout,     \* args.timeout, in ticks
    probes,      \* light_ping_sweep: procs, each probe process's state
    info,        \* the record main prints, None before it is printed
    hist,        \* history of the attempt (not program state)
    sw,          \* the inputs and result of one light_ping_sweep window
    arp,         \* the inputs and results of neighbour cache lookups
    runs,        \* two runs of the MAC generation of main()
    cidr,        \* the inputs and results of one cidr_from_ip_mask call
    ov_pc,       \* position of spawn_overlays.py's main()
    ov_args,     \* spawn_overlays: args (count, dry_run, no_daemonize)
    ov_host,     \* what spawn_overlays meets on the host: tools, files
    ov_fs,       \* the paths under workdir that exist
    ov_touched,  \* the paths spawn_overlays has created or written
    ov_cmds,     \* the external commands spawn_overlays has run, in order
    ov_i,        \* spawn_overlays main: i
    ov_rows,     \* spawn_overlays main: rows
    ov_out       \* the lines spawn_overlays has printed, in order

vars == <<pc, name, rng, mac, setup, launched, stderr, exitCode, exc, subnet,
          mac_lower, ip_found, now, next_sweep, timeout, probes, info, hist,
          sw, arp, runs, cidr, ov_pc, ov_args, ov_host, ov_fs, ov_touched,
          ov_cmds, ov_i, ov_rows, ov_out>>

mainVars == <<pc, name, rng, mac, setup, launched, stderr, exitCode, exc, subnet,
              mac_lower, ip_found, now, next_sweep, timeout, probes, info, hist>>

ovVars == <<ov_pc, ov_args, ov_host, ov_fs, ov_touched, ov_cmds, ov_i, ov_rows,
            ov_out>>

\* Python's None where the other values are text.
None == "None"

Max(a, b) == IF a >= b THEN a ELSE b

Min(a, b) == IF a <= b THEN a ELSE b

RECURSIVE Pow2(_)
Pow2(n) == IF n = 0 THEN 1 ELSE 2 * Pow2(n - 1)

(***************************************************************************)
(* Text                                                                    *)
(***************************************************************************)

HexLower == <<"0", "1", "2", "3", "4", "5", "6", "7",
              "8", "9", "a", "b", "c", "d", "e", "f">>

HexUpper == <<"0", "1", "2", "3", "4", "5", "6", "7",
              "8", "9", "A", "B", "C", "D", "E", "F">>

\* str.lower() on one character of the alphabet used here.
LowerChar(c) ==
    IF \E i \in 1..16 : HexUpper[i] = c
    THEN HexLower[CHOOSE i \in 1..16 : HexUpper[i] = c]
    ELSE c

UpperChar(c) ==
    IF \E i \in 1..16 : HexLower[i] = c
    THEN HexUpper[CHOOSE i \in 1..16 : HexLower[i] = c]
    ELSE c

\* str.lower()
Lower(s) == [i \in 1..Len(s) |-> LowerChar(s[i])]

\* str.upper()
Upper(s) == [i \in 1..Len(s) |-> UpperChar(s[i])]

\* f"{b:02x}"
Hex2(b) == <<HexLower[(b \div 16) + 1], HexLower[(b % 16) + 1]>>

\* ":".join(f"{b:02x}" for b in mac)
FormatMac(o) ==
    Hex2(o[1]) \o <<":">> \o Hex2(o[2]) \o <<":">> \o Hex2(o[3]) \o <<":">> \o
    Hex2(o[4]) \o <<":">> \o Hex2(o[5]) \o <<":">> \o Hex2(o[6])

(***************************************************************************)
(* light_ping_sweep: the window of candidate addresses                     *)
(***************************************************************************)

\* A network is [base |-> first address, prefix |-> prefix length].
NetSize(net) == Pow2(32 - net.prefix)

\* list(network.hosts()): without the network and broadcast addresses, but
\* both addresses of a /31 and the single address of a /32.
Hosts(net) ==
    LET n == NetSize(net)
    IN  IF n >= 4 THEN [i \in 1..(n - 2) |-> net.base + i]
        ELSE [i \in 1..n |-> net.base + i - 1]

\* hosts.index(host), 0-based; len(hosts)//2 on ValueError.
IndexOrMid(hosts, host) ==
    IF \E i \in 1..Len(hosts) : hosts[i] = host
    THEN (CHOOSE i \in 1..Len(hosts) :
             hosts[i] = host /\ \A j \in 1..(i - 1) : hosts[j] # host) - 1
    ELSE Len(hosts) \div 2

\* window = max(1, min(limit//2, len(hosts)//2))
Window(hosts, limit) == Max(1, Min(limit \div 2, Len(hosts) \div 2))

\* hosts[lo:hi] of Python, for 0 <= lo and hi <= len(hosts)
Slice(s, lo, hi) == IF hi <= lo THEN <<>> ELSE SubSeq(s, lo + 1, hi)

\* candidates = hosts[max(0, idx-window):min(len(hosts), idx+window)]
Candidates(net, host, limit) ==
    LET hosts  == Hosts(net)
        idx    == IndexOrMid(hosts, host)
        window == Window(hosts, limit)
    IN  Slice(hosts, Max(0, idx - window), Min(Len(hosts), idx + window))

(***************************************************************************)
(* The random source and gen_mac                                           *)
(***************************************************************************)

\* One step of the generator behind random.randint.  The model keeps what
\* the claims rest on: the next value is a function of the state alone.
RngNext(s) == (s * 75 + 74) % 65537

\* random.randint(a, b): the value drawn and the state left behind.
RandInt(s, a, b) ==
    LET t == RngNext(s) IN [val |-> a + (t % (b - a + 1)), rng |-> t]

RECURSIVE HashName(_, _)
HashName(n, h) ==
    IF n = <<>> THEN h ELSE HashName(Tail(n), (h * 31 + Head(n)) % 65537)

\* random.seed(name): the state is a function of the name alone.
SeedOf(n) == HashName(n, 7)

\* gen_mac(last_octet): the MAC text and the generator state afterwards.
\* last_octet is <<>> for None and <<n>> for the integer n.
GenMac(s, last_octet) ==
    LET r1 == RandInt(s, 0, 127)
        r2 == RandInt(r1.rng, 0, 255)
        r3 == IF last_octet = <<>> THEN RandInt(r2.rng, 0, 255)
              ELSE [val |-> last_octet[1] % 256, rng |-> r2.rng]
    IN  [mac |-> FormatMac(<<82, 84, 0, r1.val, r2.val, r3.val>>),
         rng |-> r3.rng]

\* main without its random.seed(name) line.
MainSeedSkipped(n, s) == s

\* main: random.seed(name)
MainSeed(n, s) == SeedOf(n)

\* main: random.seed(name); mac = gen_mac()
MainGenMac(n, s) == GenMac(MainSeed(n, s), <<>>)

(***************************************************************************)
(* run() and the OS utilities                                              *)
(***************************************************************************)

\* What one invocation of an OS utility does: it cannot be started
\* ("unavailable": subprocess.run raises FileNotFoundError), or it exits
\* with status zero or non-zero having written `out` to its stdout.
Outcome(status, out) == [status |-> status, out |-> out]

\* run(cmd, check): whether it raises, and the stdout it returns otherwise.
Run(r, check) ==
    IF r.status = "unavailable" THEN [raised |-> TRUE]
    ELSE IF check /\ r.status = "nonzero" THEN [raised |-> TRUE]
    ELSE [raised |-> FALSE, out |-> r.out]

(***************************************************************************)
(* arp_lookup_by_mac                                                       *)
(***************************************************************************)

\* A line of `arp -an`: an entry "? (ip) at MAC on en1 ..." or other text.
Entry(ip, m) == [kind |-> "entry", ip |-> ip, mac |-> m]

GarbledLine == [kind |-> "garbled"]

\* [0-9a-f:] under re.I
IsMacChar(c) ==
    \/ c = ":"
    \/ \E i \in 1..16 : HexLower[i] = c \/ HexUpper[i] = c

\* re.search(r"\((?P<ip>...)\).* at (?P<mac>[0-9a-f:]{17}) ", line, re.I)
LineMatch(line) ==
    /\ line.kind = "entry"
    /\ Len(line.mac) = 17
    /\ \A i \in 1..17 : IsMacChar(line.mac[i])

\* The loop over out.splitlines() without the .lower() on the parsed MAC.
FirstMatchNoLower(lines, target) ==
    IF \E i \in 1..Len(lines) : LineMatch(lines[i]) /\ lines[i].mac = target
    THEN lines[CHOOSE i \in 1..Len(lines) :
                 /\ LineMatch(lines[i]) /\ lines[i].mac = target
                 /\ \A j \in 1..(i - 1) :
                       ~(LineMatch(lines[j]) /\ lines[j].mac = target)].ip
    ELSE None

\* for line in out.splitlines(): if m and m.group("mac").lower() == mac_lower
FirstMatch(lines, target) ==
    IF \E i \in 1..Len(lines) :
          LineMatch(lines[i]) /\ Lower(lines[i].mac) = target
    THEN lines[CHOOSE i \in 1..Len(lines) :
                 /\ LineMatch(lines[i]) /\ Lower(lines[i].mac) = target
                 /\ \A j \in 1..(i - 1) :
                       ~(LineMatch(lines[j]) /\ Lower(lines[j].mac) = target)].ip
    ELSE None

\* arp_lookup_by_mac(mac_lower), `r` being what `arp -an` does this time.
\* The result is [raised |-> TRUE] or the ip returned (None: no match).
ArpLookupByMac(target, r) ==
    LET res == Run(r, FALSE)
    IN  IF res.raised THEN [raised |-> TRUE]
        ELSE [raised |-> FALSE, ip |-> FirstMatch(res.out, target)]

\* main: mac_lower = mac.lower(); ip = arp_lookup_by_mac(mac_lower)
MainLookup(m, r) == ArpLookupByMac(Lower(m), r)

(***************************************************************************)
(* get_if_ip_netmask and cidr_from_ip_mask                                 *)
(***************************************************************************)

\* The stdout of `ipconfig getifaddr` / `ipconfig getoption`, stripped.
EmptyText == [kind |-> "empty"]

GarbledText == [kind |-> "garbled"]

AddrText(a) == [kind |-> "addr", val |-> a]

\* Text of decimal digits only, such as "24".
PrefixText(n) == [kind |-> "digits", val |-> n]

\* A dotted quad, such as "255.255.255.0".
DottedText(o) == [kind |-> "dotted", octets |-> o]

\* How many of the prefix's p bits fall in octet i (1..4).
OctetBits(p, i) == Max(0, Min(8, p - 8 * (i - 1)))

\* The octets of the netmask with p leading one bits.
NetmaskOctets(p) == [i \in 1..4 |-> 256 - Pow2(8 - OctetBits(p, i))]

\* The octets of the hostmask of a /p network: the netmask inverted.
HostmaskOctets(p) == [i \in 1..4 |-> Pow2(8 - OctetBits(p, i)) - 1]

\* A dotted mask whose prefix length is p.
MaskText(p) == DottedText(NetmaskOctets(p))

\* Python's None where the other values are records.
NoneVal == [kind |-> "none"]

\* ip.strip() or None
OrNone(t) == IF t.kind = "empty" THEN NoneVal ELSE t

\* if x: the truth value of None or a non-empty string
Truthy(t) == t.kind # "none"

\* get_if_ip_netmask(ifname): two run(..., check=False) calls.
GetIfIpNetmask(rip, rmask) ==
    LET a == Run(rip, FALSE)
        m == Run(rmask, FALSE)
    IN  IF a.raised \/ m.raised THEN [raised |-> TRUE]
        ELSE [raised |-> FALSE, ip |-> OrNone(a.out), mask |-> OrNone(m.out)]

Net(base, prefix) == [kind |-> "net", base |-> base, prefix |-> prefix]

Ip4(a, b, c, d) == ((a * 256 + b) * 256 + c) * 256 + d

\* The four octets of an address, first octet first.
Octets(a) ==
    <<a \div 16777216, (a \div 65536) % 256, (a \div 256) % 256, a % 256>>

\* ipaddress: _prefix_from_prefix_string, the empty sequence when it raises
\* NetmaskValueError (text that is not all digits, or a number above 32).
PrefixFromPrefixString(t) ==
    IF t.kind = "digits" /\ t.val <= 32 THEN <<t.val>> ELSE <<>>

\* The 32 bits of a dotted quad, most significant first.
MaskBits(o) ==
    [i \in 1..32 |-> (o[((i - 1) \div 8) + 1] \div Pow2(7 - ((i - 1) % 8))) % 2]

\* ip_int ^= cls._ALL_ONES
InvertBits(b) == [i \in 1..32 |-> 1 - b[i]]

\* ipaddress: _count_righthand_zero_bits(ip_int, 32)
CountRighthandZeroBits(b) ==
    IF \A i \in 1..32 : b[i] = 0 THEN 32
    ELSE 32 - (CHOOSE i \in 1..32 :
                  b[i] = 1 /\ \A j \in (i + 1)..32 : b[j] = 0)

\* ipaddress: _prefix_from_ip_int, the empty sequence when it raises
\* ValueError (the one bits are not one run from the left).
PrefixFromIpInt(b) ==
    LET prefixlen == 32 - CountRighthandZeroBits(b)
    IN  IF \A i \in 1..prefixlen : b[i] = 1 THEN <<prefixlen>> ELSE <<>>

\* ipaddress: _prefix_from_ip_string: a netmask first, then a hostmask.
PrefixFromIpString(t) ==
    IF t.kind # "dotted" THEN <<>>
    ELSE LET b == MaskBits(t.octets)
         IN  IF PrefixFromIpInt(b) # <<>> THEN PrefixFromIpInt(b)
             ELSE PrefixFromIpInt(InvertBits(b))

\* ipaddress: _make_netmask on the text after the "/": the prefix length,
\* or the empty sequence when NetmaskValueError is raised.
MakeNetmask(t) ==
    IF PrefixFromPrefixString(t) # <<>> THEN PrefixFromPrefixString(t)
    ELSE PrefixFromIpString(t)

\* ipaddress.IPv4Network((a, prefix), strict=False): the address with its
\* host bits cleared, octet by octet.
NetworkOf(a, prefix) ==
    LET o == Octets(a)
        n == [i \in 1..4 |-> o[i] - (o[i] % Pow2(8 - OctetBits(prefix, i)))]
    IN  Net(Ip4(n[1], n[2], n[3], n[4]), prefix)

\* ".".join(parts[:3] + ["0"]) + "/24" as a network
FallbackNet(a) ==
    LET parts == Octets(a)
    IN  NetworkOf(Ip4(parts[1], parts[2], parts[3], 0), 24)

\* cidr_from_ip_mask with strict=True: host bits set raise ValueError, which
\* the except clause answers with the fallback.
CidrFromIpMaskStrict(ip, mask) ==
    IF ip.kind = "addr" /\ MakeNetmask(mask) # <<>>
       /\ NetworkOf(ip.val, MakeNetmask(mask)[1]).base = ip.val
    THEN [raised |-> FALSE, net |-> NetworkOf(ip.val, MakeNetmask(mask)[1])]
    ELSE IF ip.kind = "addr"
    THEN [raised |-> FALSE, net |-> FallbackNet(ip.val)]
    ELSE [raised |-> TRUE]

\* cidr_from_ip_mask(ip, mask): the network, or raised when the fallback's
\* own IPv4Network call fails on text that is no address.
CidrFromIpMask(ip, mask) ==
    IF ip.kind = "addr" /\ MakeNetmask(mask) # <<>>
    THEN [raised |-> FALSE, net |-> NetworkOf(ip.val, MakeNetmask(mask)[1])]
    ELSE IF ip.kind = "addr"
    THEN [raised |-> FALSE, net |-> FallbackNet(ip.val)]
    ELSE [raised |-> TRUE]

\* main: subnet = None; if host_ip and mask: try ... except: subnet = None
MainSubnet(host_ip, mask) ==
    IF Truthy(host_ip) /\ Truthy(mask)
    THEN LET c == CidrFromIpMask(host_ip, mask)
         IN  IF c.raised THEN NoneVal ELSE c.net
    ELSE NoneVal

(***************************************************************************)
(* light_ping_sweep                                                        *)
(***************************************************************************)

\* light_ping_sweep up to its time.sleep: raised (the resolver's utility or
\* ping cannot be started, or IPv4Address rejects the host text), returned
\* early (no host address), or the candidates it started one probe for.
LightPingSweep(net, limit, rip, rmask, pingAvailable) ==
    LET h == GetIfIpNetmask(rip, rmask)
    IN  IF h.raised THEN [raised |-> TRUE, by |-> "ipconfig"]
        ELSE IF ~Truthy(h.ip)
        THEN [raised |-> FALSE, fired |-> FALSE, candidates |-> <<>>]
        ELSE IF h.ip.kind # "addr" THEN [raised |-> TRUE, by |-> "ipconfig"]
        ELSE LET c == Candidates(net, h.ip.val, limit)
             IN  IF c # <<>> /\ ~pingAvailable
                 THEN [raised |-> TRUE, by |-> "ping"]
                 ELSE [raised |-> FALSE, fired |-> TRUE, candidates |-> c]

(***************************************************************************)
(* launch_vm                                                               *)
(***************************************************************************)

\* The host as launch_vm meets it: which files exist, what qemu-img and
\* the hypervisor do, and whether the hypervisor writes its PID file.
Setups ==
    { h \in [code : BOOLEAN, varsfd : BOOLEAN, gold : BOOLEAN,
             overlay : BOOLEAN, qemuImg : {"ok", "nonzero", "unavailable"},
             qemu : {"ok", "nonzero", "unavailable"}, pidfile : BOOLEAN] :
        \* what the code never looks at has one value
        /\ (~(h.code /\ h.varsfd /\ h.gold) \/ h.overlay) => h.qemuImg = "ok"
        /\ (~(h.code /\ h.varsfd /\ h.gold) \/ h.qemuImg # "ok") =>
              h.qemu = "ok"
        /\ (~(h.code /\ h.varsfd /\ h.gold) \/ h.qemuImg # "ok"
               \/ h.qemu # "ok") => h.pidfile }

\* make_overlay(gold, overlay)
MakeOverlay(h) ==
    IF ~h.gold THEN [raised |-> TRUE, msg |-> "Base image not found"]
    ELSE IF h.overlay THEN [raised |-> FALSE]
    ELSE IF Run(Outcome(h.qemuImg, <<>>), TRUE).raised
    THEN [raised |-> TRUE, msg |-> "CMD failed: qemu-img"]
    ELSE [raised |-> FALSE]

\* launch_vm without the vars.fd check.
LaunchVmNoVarsCheck(h) ==
    IF ~h.code
    THEN [raised |-> TRUE, msg |-> "UEFI code ROM not found", launched |-> 0]
    ELSE LET o == MakeOverlay(h)
         IN  IF o.raised
             THEN [raised |-> TRUE, msg |-> o.msg, launched |-> 0]
             ELSE IF Run(Outcome(h.qemu, <<>>), TRUE).raised
             THEN [raised |-> TRUE, msg |-> "CMD failed: qemu-system-aarch64",
                   launched |-> IF h.qemu = "unavailable" THEN 0 ELSE 1]
             ELSE IF ~h.pidfile
             THEN [raised |-> TRUE, msg |-> "QEMU did not create a PID file",
                   launched |-> 1]
             ELSE [raised |-> FALSE, msg |-> "", launched |-> 1]

\* launch_vm: the exception it raises, if any, and how many times it ran
\* the hypervisor binary.
LaunchVm(h) ==
    IF ~h.code
    THEN [raised |-> TRUE, msg |-> "UEFI code ROM not found", launched |-> 0]
    ELSE IF ~h.varsfd
    THEN [raised |-> TRUE, msg |-> "vars.fd not found", launched |-> 0]
    ELSE LET o == MakeOverlay(h)
         IN  IF o.raised
             THEN [raised |-> TRUE, msg |-> o.msg, launched |-> 0]
             ELSE IF Run(Outcome(h.qemu, <<>>), TRUE).raised
             THEN [raised |-> TRUE, msg |-> "CMD failed: qemu-system-aarch64",
                   launched |-> IF h.qemu = "unavailable" THEN 0 ELSE 1]
             ELSE IF ~h.pidfile
             THEN [raised |-> TRUE, msg |-> "QEMU did not create a PID file",
                   launched |-> 1]
             ELSE [raised |-> FALSE, msg |-> "", launched |-> 1]

(***************************************************************************)
(* Bounds and the program's constants                                      *)
(***************************************************************************)

\* --timeout ranges over 0..MaxTimeoutSec seconds.
MaxTimeoutSec == 7

\* One utility call (arp, ipconfig) takes 0..MaxLatency ticks.
MaxLatency == 1

\* next_sweep = time.time() + 1.0
FirstSweepDelay == 2

\* sweep_every = 5.0
SweepEvery == 10

\* time.sleep(0.5) at the end of an iteration
PollSleep == 1

\* time.sleep(0.5) in light_ping_sweep
Grace == 1

\* light_ping_sweep(args.ifname, subnet, limit=64)
SweepLimit == 64

\* f"http://{ip_found}:3080"
ApiPort == 3080


\* --name, as character codes: "sA", "sB", "sC"
Names == { <<115, 65>>, <<115, 66>>, <<115, 67>> }

\* The guest name of the runs of main that are followed to their end.
MainNames == { <<115, 67>> }

\* The state of the random source when main starts (seeded by the OS).
RngStates == { 1, 40000 }

\* --timeout, in ticks: 0 s, the 2 s of scenario B, and the longest.
Timeouts == { 0, 4, 2 * MaxTimeoutSec }

Latencies == 0..MaxLatency

\* What the two ipconfig calls of get_if_ip_netmask do, in main.
ResolverOutcomes ==
    { <<Outcome("unavailable", EmptyText), Outcome("unavailable", EmptyText)>>,
      <<Outcome("nonzero", EmptyText), Outcome("nonzero", EmptyText)>>,
      <<Outcome("ok", AddrText(Ip4(10, 193, 80, 65))), Outcome("ok", EmptyText)>>,
      <<Outcome("ok", GarbledText), Outcome("ok", MaskText(30))>>,
      <<Outcome("ok", AddrText(Ip4(10, 193, 80, 65))), Outcome("ok", MaskText(30))>>,
      <<Outcome("ok", AddrText(Ip4(10, 193, 80, 65))), Outcome("ok", MaskText(32))>> }

\* What they do when light_ping_sweep asks again.
SweepResolverOutcomes ==
    { <<Outcome("unavailable", EmptyText), Outcome("unavailable", EmptyText)>>,
      <<Outcome("nonzero", EmptyText), Outcome("nonzero", EmptyText)>>,
      <<Outcome("ok", GarbledText), Outcome("ok", MaskText(30))>>,
      <<Outcome("ok", AddrText(Ip4(10, 193, 80, 66))), Outcome("ok", MaskText(30))>>,
      <<Outcome("ok", AddrText(Ip4(10, 193, 80, 65))), Outcome("ok", MaskText(30))>> }

GuestIp == "10.193.80.66"

StaleIp == "10.193.80.77"

OtherIp == "10.193.80.1"

OtherMac == FormatMac(<<0, 17, 34, 51, 68, 85>>)

\* A MAC as macOS prints it, without leading zeros: not 17 characters.
ShortMac == <<"5", "2", ":", "5", "4", ":", "0", ":", "a", ":", "b", ":", "c">>

\* What `arp -an` does at one lookup, m being the target MAC in lower case.
ArpOutcomes(m) ==
    { Outcome("unavailable", <<>>),
      Outcome("ok", <<>>),
      Outcome("ok", <<GarbledLine, Entry(OtherIp, OtherMac)>>),
      Outcome("ok", <<Entry(OtherIp, ShortMac), Entry(GuestIp, Upper(m))>>),
      Outcome("nonzero", <<>>),
      Outcome("nonzero", <<Entry(StaleIp, m)>>) }

(***************************************************************************)
(* main                                                                    *)
(***************************************************************************)

NoUrl == [kind |-> "none"]

\* f"http://{ip_found}:3080"
Url(ip) == [kind |-> "url", host |-> ip, port |-> ApiPort]

NoInfo == [printed |-> FALSE]

Hist0 ==
    [phase |-> "NOT_STARTED", \* NOT_STARTED, RUNNING, FOUND, TIMED_OUT
     iter |-> 0,              \* iterations of the loop begun
     lookups |-> 0,           \* calls of arp_lookup_by_mac
     sweeps |-> 0,            \* calls of light_ping_sweep
     bursts |-> 0,            \* those that started their probes
     firstSweepIter |-> 0,    \* the iteration of the first sweep
     firstSweepAt |-> 0,      \* the time its condition was evaluated
     lastSweepEnd |-> 0,      \* the time the latest sweep returned
     sweepStart |-> 0,        \* the time the latest burst was started
     window |-> <<>>,         \* the candidates of the latest burst
     lastFired |-> FALSE,     \* whether the latest sweep started probes
     lastIp |-> None,         \* what the latest lookup returned
     matchStatus |-> None,    \* exit status of the arp call that matched
     raisedBy |-> None]       \* the step whose exception ended main

\* main with next_sweep = time.time(): the first sweep due at once.
InitialNextSweepNow(t) == t

\* main, line 224: next_sweep = time.time() + 1.0
InitialNextSweep(t) == t + FirstSweepDelay

\* main, line 230: if subnet and time.time() >= next_sweep
SweepDue(sn, t, ns) == Truthy(sn) /\ t >= ns

\* A probe's state as p.wait() would return it: only once it has exited.
PollWaits(st) == [blocked |-> st = "running", ret |-> st]

\* light_ping_sweep, line 132: p.poll() returns at once, exited or not.
Poll(st) == [blocked |-> FALSE, ret |-> st]

\* The record main prints, with the api_url built whatever ip_found is.
InfoUrlAlways(n, h, m, ip) ==
    [printed |-> TRUE, vm |-> n, pid |-> h.pidfile, mac |-> m, ip |-> ip,
     api_url |-> Url(ip)]

\* main, lines 242-253: info
Info(n, h, m, ip) ==
    [printed |-> TRUE, vm |-> n, pid |-> h.pidfile, mac |-> m, ip |-> ip,
     api_url |-> IF ip # None THEN Url(ip) ELSE NoUrl]

MainInit ==
    /\ pc = "start"
    /\ name \in MainNames
    /\ rng \in RngStates
    /\ timeout \in Timeouts
    /\ mac = <<>>
    /\ setup = [code |-> TRUE]
    /\ launched = 0
    /\ stderr = <<>>
    /\ exitCode = -1
    /\ exc = None
    /\ subnet = NoneVal
    /\ mac_lower = <<>>
    /\ ip_found = None
    /\ now = 0
    /\ next_sweep = 0
    /\ probes = <<>>
    /\ info = NoInfo
    /\ hist = Hist0

\* main, lines 199-202: random.seed(name); mac = gen_mac()
GenerateMac ==
    /\ UNCHANGED <<sw, arp, runs, cidr>>
    /\ UNCHANGED ovVars
    /\ pc = "start"
    /\ LET g == MainGenMac(name, rng)
       IN  /\ mac' = g.mac
           /\ rng' = g.rng
    /\ pc' = "launch"
    /\ UNCHANGED <<name, setup, launched, stderr, exitCode, exc, subnet,
                   mac_lower, ip_found, now, next_sweep, timeout, probes,
                   info, hist>>

\* main, line 205: launch_vm(...)
Launch ==
    /\ UNCHANGED <<sw, arp, runs, cidr>>
    /\ UNCHANGED ovVars
    /\ pc = "launch"
    /\ \E h \in Setups :
          LET r == LaunchVm(h)
          IN  /\ setup' = IF r.raised THEN h ELSE [h EXCEPT !.overlay = TRUE]
              /\ launched' = launched + r.launched
              /\ IF r.raised
                 THEN /\ pc' = "raised"
                      /\ exc' = r.msg
                      /\ hist' = [hist EXCEPT !.raisedBy = "launch_vm"]
                 ELSE /\ pc' = "resolve"
                      /\ UNCHANGED <<exc, hist>>
    /\ UNCHANGED <<name, rng, mac, stderr, exitCode, subnet, mac_lower,
                   ip_found, now, next_sweep, timeout, probes, info>>

\* main, lines 207-224: the host's address and subnet, then the loop's
\* variables.  The model's clock starts at t0.
Resolve ==
    /\ UNCHANGED <<sw, arp, runs, cidr>>
    /\ UNCHANGED ovVars
    /\ pc = "resolve"
    /\ \E o \in ResolverOutcomes :
          LET h == GetIfIpNetmask(o[1], o[2])
          IN  IF h.raised
              THEN /\ pc' = "raised"
                   /\ exc' = "No such file or directory: ipconfig"
                   /\ hist' = [hist EXCEPT !.raisedBy = "ipconfig"]
                   /\ UNCHANGED <<stderr, subnet, mac_lower, ip_found, now,
                                  next_sweep>>
              ELSE /\ stderr' = IF Truthy(h.ip) THEN stderr
                                ELSE Append(stderr, "WARNING: no host IP")
                   /\ subnet' = MainSubnet(h.ip, h.mask)
                   /\ mac_lower' = Lower(mac)
                   /\ ip_found' = None
                   /\ now' = 0
                   /\ next_sweep' = InitialNextSweep(0)
                   /\ pc' = "while"
                   /\ hist' = [hist EXCEPT !.phase = "RUNNING"]
                   /\ UNCHANGED exc
    /\ UNCHANGED <<name, rng, mac, setup, launched, exitCode, timeout,
                   probes, info>>

\* main, line 225: while time.time() - t0 < args.timeout
While ==
    /\ UNCHANGED <<sw, arp, runs, cidr>>
    /\ UNCHANGED ovVars
    /\ pc = "while"
    /\ IF now - 0 < timeout
       THEN /\ pc' = "lookup"
            /\ hist' = [hist EXCEPT !.iter = @ + 1]
       ELSE /\ pc' = "report"
            /\ hist' = [hist EXCEPT !.phase = "TIMED_OUT"]
    /\ UNCHANGED <<name, rng, mac, setup, launched, stderr, exitCode, exc,
                   subnet, mac_lower, ip_found, now, next_sweep, timeout,
                   probes, info>>

\* main, lines 226-230: the lookup, the break, and the sweep's condition.
Lookup ==
    /\ UNCHANGED <<sw, arp, runs, cidr>>
    /\ UNCHANGED ovVars
    /\ pc = "lookup"
    /\ \E d \in Latencies, o \in ArpOutcomes(mac_lower) :
          LET r == ArpLookupByMac(mac_lower, o)
          IN  /\ now' = now + d
              /\ IF r.raised
                 THEN /\ pc' = "raised"
                      /\ exc' = "No such file or directory: arp"
                      /\ hist' = [hist EXCEPT !.lookups = @ + 1,
                                              !.raisedBy = "arp"]
                      /\ UNCHANGED ip_found
                 ELSE IF r.ip # None
                 THEN /\ ip_found' = r.ip
                      /\ pc' = "report"
                      /\ hist' = [hist EXCEPT !.lookups = @ + 1,
                                              !.lastIp = r.ip,
                                              !.matchStatus = o.status,
                                              !.phase = "FOUND"]
                      /\ UNCHANGED exc
                 ELSE /\ pc' = IF SweepDue(subnet, now', next_sweep)
                               THEN "sweep" ELSE "sleep"
                      /\ hist' = [hist EXCEPT !.lookups = @ + 1,
                                              !.lastIp = None]
                      /\ UNCHANGED <<exc, ip_found>>
    /\ UNCHANGED <<name, rng, mac, setup, launched, stderr, exitCode, subnet,
                   mac_lower, next_sweep, timeout, probes, info>>

\* main, line 231, and light_ping_sweep up to its time.sleep(0.5): the
\* host address is asked again and one ping is started per candidate.
Sweep ==
    /\ UNCHANGED <<sw, arp, runs, cidr>>
    /\ UNCHANGED ovVars
    /\ pc = "sweep"
    /\ \E d \in Latencies, o \in SweepResolverOutcomes, ping \in BOOLEAN :
          LET r == LightPingSweep(subnet, SweepLimit, o[1], o[2], ping)
          IN  /\ now' = now + d
              /\ IF r.raised
                 THEN /\ pc' = "raised"
                      /\ exc' = "light_ping_sweep failed"
                      /\ hist' = [hist EXCEPT !.sweeps = @ + 1,
                                              !.raisedBy = r.by]
                      /\ UNCHANGED <<probes, next_sweep>>
                 ELSE IF ~r.fired
                 THEN \* returned before any probe: line 232 follows
                      /\ next_sweep' = now' + SweepEvery
                      /\ pc' = "sleep"
                      /\ hist' = [hist EXCEPT
                                    !.sweeps = @ + 1,
                                    !.firstSweepIter =
                                        IF hist.sweeps = 0 THEN hist.iter ELSE @,
                                    !.firstSweepAt =
                                        IF hist.sweeps = 0 THEN now ELSE @,
                                    !.lastFired = FALSE,
                                    !.lastSweepEnd = now']
                      /\ UNCHANGED <<probes, exc>>
                 ELSE /\ probes' = [i \in 1..Len(r.candidates) |-> "running"]
                      /\ pc' = "grace"
                      /\ hist' = [hist EXCEPT
                                    !.sweeps = @ + 1,
                                    !.bursts = @ + 1,
                                    !.firstSweepIter =
                                        IF hist.sweeps = 0 THEN hist.iter ELSE @,
                                    !.firstSweepAt =
                                        IF hist.sweeps = 0 THEN now ELSE @,
                                    !.window = r.candidates,
                                    !.lastFired = TRUE,
                                    !.sweepStart = now']
                      /\ UNCHANGED <<next_sweep, exc>>
    /\ UNCHANGED <<name, rng, mac, setup, launched, stderr, exitCode, subnet,
                   mac_lower, ip_found, timeout, info>>

\* light_ping_sweep, lines 129-134: the grace sleep and one poll of each
\* probe; then main, line 232.
GraceReturn ==
    /\ UNCHANGED <<sw, arp, runs, cidr>>
    /\ UNCHANGED ovVars
    /\ pc = "grace"
    /\ \A i \in 1..Len(probes) : ~Poll(probes[i]).blocked
    /\ now' = now + Grace
    /\ next_sweep' = now' + SweepEvery
    /\ pc' = "sleep"
    /\ hist' = [hist EXCEPT !.lastSweepEnd = now']
    /\ UNCHANGED <<name, rng, mac, setup, launched, stderr, exitCode, exc,
                   subnet, mac_lower, ip_found, timeout, probes, info>>

\* main, line 233: time.sleep(0.5)
Sleep ==
    /\ UNCHANGED <<sw, arp, runs, cidr>>
    /\ UNCHANGED ovVars
    /\ pc = "sleep"
    /\ now' = now + PollSleep
    /\ pc' = "while"
    /\ UNCHANGED <<name, rng, mac, setup, launched, stderr, exitCode, exc,
                   subnet, mac_lower, ip_found, next_sweep, timeout, probes,
                   info, hist>>

\* main, lines 235-258: the PID, the printed record, the TIP on stderr.
Report ==
    /\ UNCHANGED <<sw, arp, runs, cidr>>
    /\ UNCHANGED ovVars
    /\ pc = "report"
    /\ info' = Info(name, setup, mac_lower, ip_found)
    /\ stderr' = IF ip_found # None THEN stderr
                 ELSE Append(stderr, "TIP: If IP is null ...")
    /\ exitCode' = 0
    /\ pc' = "done"
    /\ UNCHANGED <<name, rng, mac, setup, launched, exc, subnet, mac_lower,
                   ip_found, now, next_sweep, timeout, probes, hist>>

\* __main__, lines 260-265: except Exception: print ERROR; sys.exit(1)
Handler ==
    /\ UNCHANGED <<sw, arp, runs, cidr>>
    /\ UNCHANGED ovVars
    /\ pc = "raised"
    /\ stderr' = Append(stderr, <<"ERROR: ", exc>>)
    /\ exitCode' = 1
    /\ pc' = "exited"
    /\ UNCHANGED <<name, rng, mac, setup, launched, exc, subnet, mac_lower,
                   ip_found, now, next_sweep, timeout, probes, info, hist>>

\* A ping started by the sweep exits on its own, with or without a reply,
\* at any time, also after main has ended.
ProbeExit ==
    /\ UNCHANGED <<sw, arp, runs, cidr>>
    /\ UNCHANGED ovVars
    /\ \E i \in 1..Len(probes), st \in {"succeeded", "failed"} :
          /\ probes[i] = "running"
          /\ probes' = [probes EXCEPT ![i] = st]
    /\ UNCHANGED <<pc, name, rng, mac, setup, launched, stderr, exitCode, exc,
                   subnet, mac_lower, ip_found, now, next_sweep, timeout,
                   info, hist>>

\* The pure-function specifications leave main where it is, and main them.
SwIdle == [pc |-> "idle"]

ArpIdle == [pc |-> "idle"]

RunsIdle == [pc |-> "idle"]

CidrIdle == [pc |-> "idle"]

\* spawn_overlays.py is a program of its own: it is not run here.
OvIdle ==
    /\ ov_pc = "idle"
    /\ ov_args = [count |-> 0, dry_run |-> FALSE, no_daemonize |-> FALSE]
    /\ ov_host = [tree |-> {}]
    /\ ov_fs = {}
    /\ ov_touched = {}
    /\ ov_cmds = <<>>
    /\ ov_i = 0
    /\ ov_rows = <<>>
    /\ ov_out = <<>>

Init ==
    /\ MainInit
    /\ sw = SwIdle
    /\ arp = ArpIdle
    /\ runs = RunsIdle
    /\ cidr = CidrIdle
    /\ OvIdle

Next ==
    \/ GenerateMac
    \/ Launch
    \/ Resolve
    \/ While
    \/ Lookup
    \/ Sweep
    \/ GraceReturn
    \/ Sleep
    \/ Report
    \/ Handler
    \/ ProbeExit

Spec == Init /\ [][Next]_vars

(***************************************************************************)
(* light_ping_sweep on its own: every network, host address and limit      *)
(***************************************************************************)

\* Networks of 2^0 .. 2^MaxHostBits addresses.
MaxHostBits == 4

\* limit ranges over 0..MaxLimit.
MaxLimit == 10

MainIdle ==
    /\ pc = "idle"
    /\ name = <<>>
    /\ rng = 0
    /\ timeout = 0
    /\ mac = <<>>
    /\ setup = [code |-> TRUE]
    /\ launched = 0
    /\ stderr = <<>>
    /\ exitCode = -1
    /\ exc = None
    /\ subnet = NoneVal
    /\ mac_lower = <<>>
    /\ ip_found = None
    /\ now = 0
    /\ next_sweep = 0
    /\ probes = <<>>
    /\ info = NoInfo
    /\ hist = Hist0

SweepNets == { Net(Ip4(10, 193, 80, 64), 32 - b) : b \in 0..MaxHostBits }

\* The host's own address: every address of the network, the one before
\* it and the one after it, or none.
SweepHostTexts(net) ==
    {EmptyText} \cup
    { AddrText(a) : a \in (net.base - 1)..(net.base + NetSize(net)) }

SwInit ==
    /\ MainIdle
    /\ arp = ArpIdle
    /\ runs = RunsIdle
    /\ cidr = CidrIdle
    /\ OvIdle
    /\ \E net \in SweepNets, limit \in 0..MaxLimit :
          \E host \in SweepHostTexts(net) :
             sw = [pc |-> "call", net |-> net, host |-> host, limit |-> limit,
                   fired |-> FALSE, candidates |-> <<>>]

\* light_ping_sweep(ifname, network, limit) with no host address: return.
SwReturnEarly ==
    /\ sw.pc = "call"
    /\ LET r == LightPingSweep(sw.net, sw.limit, Outcome("ok", sw.host),
                               Outcome("ok", MaskText(sw.net.prefix)), TRUE)
       IN  /\ ~r.fired
           /\ sw' = [sw EXCEPT !.pc = "returned"]
    /\ UNCHANGED mainVars
    /\ UNCHANGED <<arp, runs, cidr>>
    /\ UNCHANGED ovVars

\* light_ping_sweep(ifname, network, limit): the candidates it probes.
SwProbe ==
    /\ sw.pc = "call"
    /\ LET r == LightPingSweep(sw.net, sw.limit, Outcome("ok", sw.host),
                               Outcome("ok", MaskText(sw.net.prefix)), TRUE)
       IN  /\ r.fired
           /\ sw' = [sw EXCEPT !.pc = "returned", !.fired = TRUE,
                               !.candidates = r.candidates]
    /\ UNCHANGED mainVars
    /\ UNCHANGED <<arp, runs, cidr>>
    /\ UNCHANGED ovVars

SwNext ==
    \/ SwReturnEarly
    \/ SwProbe

SpecSweep == SwInit /\ [][SwNext]_vars

(***************************************************************************)
(* arp_lookup_by_mac on its own: every target and cache                    *)
(***************************************************************************)

\* The cache holds 0..MaxCacheLen lines.
MaxCacheLen == 2

SampleMac == FormatMac(<<82, 84, 0, 170, 187, 204>>)

\* "52:54:00:Aa:Bb:Cc"
MixedMac == [i \in 1..17 |-> IF i % 3 = 1 THEN UpperChar(SampleMac[i])
                             ELSE SampleMac[i]]

ArpTargets == { SampleMac, Upper(SampleMac), MixedMac, OtherMac }

ArpLines ==
    { Entry(GuestIp, SampleMac), Entry(StaleIp, Upper(SampleMac)),
      Entry(OtherIp, OtherMac), Entry("10.193.80.9", ShortMac), GarbledLine }

ArpCaches == UNION { [1..n -> ArpLines] : n \in 0..MaxCacheLen }

ArpInit ==
    /\ MainIdle
    /\ sw = SwIdle
    /\ runs = RunsIdle
    /\ cidr = CidrIdle
    /\ OvIdle
    /\ \E t \in ArpTargets, c \in ArpCaches :
          arp = [pc |-> "call", target |-> t, cache |-> c,
                 direct |-> "pending", viaMain |-> "pending"]

\* arp_lookup_by_mac(target), the target passed as it is written.
ArpDirect ==
    /\ arp.pc = "call"
    /\ arp.direct = "pending"
    /\ arp' = [arp EXCEPT !.direct =
                  ArpLookupByMac(arp.target, Outcome("ok", arp.cache)).ip]
    /\ UNCHANGED mainVars
    /\ UNCHANGED <<sw, runs, cidr>>
    /\ UNCHANGED ovVars

\* main, lines 218 and 226: arp_lookup_by_mac(mac.lower())
ArpViaMain ==
    /\ arp.pc = "call"
    /\ arp.viaMain = "pending"
    /\ arp' = [arp EXCEPT !.viaMain =
                  MainLookup(arp.target, Outcome("ok", arp.cache)).ip]
    /\ UNCHANGED mainVars
    /\ UNCHANGED <<sw, runs, cidr>>
    /\ UNCHANGED ovVars

ArpNext ==
    \/ ArpDirect
    \/ ArpViaMain

SpecArp == ArpInit /\ [][ArpNext]_vars

(***************************************************************************)
(* Two runs of main's MAC generation                                       *)
(***************************************************************************)

Ifnames == { "en0", "en1" }

RunStart(n, s, i) ==
    [pc |-> "start", name |-> n, rng0 |-> s, ifname |-> i, mac |-> <<>>]

MacInit ==
    /\ MainIdle
    /\ sw = SwIdle
    /\ arp = ArpIdle
    /\ cidr = CidrIdle
    /\ OvIdle
    /\ \E na \in Names, nb \in Names, sa \in RngStates, sb \in RngStates :
          \E ia \in Ifnames, ib \in Ifnames :
             runs = [pc |-> "active", a |-> RunStart(na, sa, ia),
                     b |-> RunStart(nb, sb, ib)]

\* main, lines 199-202, in the first run
GenerateMacA ==
    /\ runs.pc = "active"
    /\ runs.a.pc = "start"
    /\ runs' = [runs EXCEPT !.a.pc = "done",
                            !.a.mac = MainGenMac(runs.a.name, runs.a.rng0).mac]
    /\ UNCHANGED mainVars
    /\ UNCHANGED <<sw, arp, cidr>>
    /\ UNCHANGED ovVars

\* main, lines 199-202, in the second run
GenerateMacB ==
    /\ runs.pc = "active"
    /\ runs.b.pc = "start"
    /\ runs' = [runs EXCEPT !.b.pc = "done",
                            !.b.mac = MainGenMac(runs.b.name, runs.b.rng0).mac]
    /\ UNCHANGED mainVars
    /\ UNCHANGED <<sw, arp, cidr>>
    /\ UNCHANGED ovVars

MacNext ==
    \/ GenerateMacA
    \/ GenerateMacB

SpecMac == MacInit /\ [][MacNext]_vars

(***************************************************************************)
(* cidr_from_ip_mask on its own: every kind of mask text                   *)
(***************************************************************************)

\* Masks written as digits range over "0".."MaxPrefixText".
MaxPrefixText == 34

\* Host addresses.  Their first octet stays below 128 so that the integer
\* value of every address fits TLC's 32-bit integers.
CidrAddrs ==
    { Ip4(10, 193, 80, 65), Ip4(10, 193, 80, 64), Ip4(10, 193, 80, 0),
      Ip4(0, 0, 0, 0), Ip4(127, 255, 255, 255), Ip4(100, 64, 3, 7),
      Ip4(1, 2, 3, 255) }

\* Dotted quads whose one bits are one run neither from the left nor from
\* the right.
BrokenMasks ==
    { <<255, 0, 255, 0>>, <<255, 255, 255, 253>>, <<0, 0, 0, 254>>,
      <<1, 0, 0, 0>> }

\* What the mask argument can hold: nothing, text that is no mask, digits,
\* every netmask, every hostmask, and broken dotted quads.
CidrMasks ==
    {EmptyText, GarbledText}
    \cup { PrefixText(n) : n \in 0..MaxPrefixText }
    \cup { MaskText(p) : p \in 0..32 }
    \cup { DottedText(HostmaskOctets(p)) : p \in 0..32 }
    \cup { DottedText(o) : o \in BrokenMasks }

CidrPending == [done |-> FALSE]

CidrInit ==
    /\ MainIdle
    /\ sw = SwIdle
    /\ arp = ArpIdle
    /\ runs = RunsIdle
    /\ OvIdle
    /\ \E a \in CidrAddrs, m \in CidrMasks :
          cidr = [pc |-> "call", ip |-> AddrText(a), mask |-> m,
                  direct |-> CidrPending, viaMain |-> CidrPending]

\* cidr_from_ip_mask(ip, mask), called with the texts as they are.
CidrDirect ==
    /\ cidr.pc = "call"
    /\ ~cidr.direct.done
    /\ cidr' = [cidr EXCEPT !.direct =
                    [done |-> TRUE, res |-> CidrFromIpMask(cidr.ip, cidr.mask)]]
    /\ UNCHANGED mainVars
    /\ UNCHANGED <<sw, arp, runs>>
    /\ UNCHANGED ovVars

\* main, lines 210-216: the texts as get_if_ip_netmask returns them, and
\* cidr_from_ip_mask only when both are truthy.
CidrViaMain ==
    /\ cidr.pc = "call"
    /\ ~cidr.viaMain.done
    /\ cidr' = [cidr EXCEPT !.viaMain =
                    [done |-> TRUE,
                     subnet |-> MainSubnet(OrNone(cidr.ip), OrNone(cidr.mask))]]
    /\ UNCHANGED mainVars
    /\ UNCHANGED <<sw, arp, runs>>
    /\ UNCHANGED ovVars

CidrNext ==
    \/ CidrDirect
    \/ CidrViaMain

SpecCidr == CidrInit /\ [][CidrNext]_vars

(***************************************************************************)
(* spawn_overlays.py: main()                                               *)
(***************************************************************************)

\* --count ranges over 0..MaxCount.
MaxCount == 2

\* A path under workdir; n is the VM index, 0 where there is none.
OvPath(kind, n) == [kind |-> kind, n |-> n]

\* workdir / "overlays"
OverlaysDir == OvPath("overlays", 0)

\* workdir / "seeds"
SeedsDir == OvPath("seeds", 0)

\* overlays_dir / f"root-{i}.qcow2"
OvlDisk(n) == OvPath("root.qcow2", n)

\* seeds_dir / f"seed-init-{i}"
SeedInit(n) == OvPath("seed-init", n)

\* The five files of the dict `files`, all under seed_init.
SeedFiles(n) == OvPath("seed-init files", n)

\* seeds_dir / f"seed-{i}.iso"
SeedIso(n) == OvPath("seed.iso", n)

\* workdir / f"{name}.pid"
Pidfile(n) == OvPath("pid", n)

\* workdir / "instances.csv"
CsvPath == OvPath("instances.csv", 0)

\* One printed line; n is the VM index, 0 where there is none.
OvLine(kind, n) == [kind |-> kind, n |-> n]

\* ensure_dir(p): p.mkdir(parents=True, exist_ok=True)
EnsureDir(p, tree, touched) ==
    IF p \in tree THEN [fs |-> tree, touched |-> touched]
    ELSE [fs |-> tree \cup {p}, touched |-> touched \cup {p}]

\* run(cmd, check) for VM n: subprocess.run raises FileNotFoundError when
\* the executable is missing and CalledProcessError on a non-zero exit when
\* check is set, which run reports before it re-raises; a command that
\* started is appended to the commands run.
OvRun(cmd, status, check, n) ==
    [raised |-> status = "unavailable" \/ (check /\ status = "nonzero"),
     cmds |-> IF status = "unavailable" THEN <<>> ELSE <<cmd>>,
     out |-> IF check /\ status = "nonzero"
             THEN <<OvLine("[!] Command failed", n)>> ELSE <<>>]

\* build_seed_iso(seed_init_dir, out_iso) for VM n: hdiutil, then mkisofs
\* if it is installed, else xorrisofs if it is installed, else RuntimeError.
\* Any failure of hdiutil is caught; a failing fallback raises.
BuildSeedIso(h, n) ==
    LET first == OvRun("hdiutil makehybrid", h.hdiutil, TRUE, n)
        mk == OvRun("mkisofs", h.mkisofs, TRUE, n)
        xo == OvRun("xorrisofs", h.xorrisofs, TRUE, n)
        tried == <<OvLine("Creating hybrid image via hdiutil", n)>> \o first.out
        fallback == tried \o <<OvLine("[*] hdiutil failed", n)>>
    IN  IF ~first.raised
        THEN [raised |-> FALSE, cmds |-> first.cmds, out |-> tried]
        ELSE IF h.mkisofs # "unavailable"
        THEN [raised |-> mk.raised, cmds |-> first.cmds \o mk.cmds,
              out |-> fallback \o mk.out]
        ELSE IF h.xorrisofs # "unavailable"
        THEN [raised |-> xo.raised, cmds |-> first.cmds \o xo.cmds,
              out |-> fallback \o xo.out]
        ELSE [raised |-> TRUE, cmds |-> first.cmds, out |-> fallback]

\* The ISO builders met on the host: hdiutil works; hdiutil fails and mkisofs
\* works; only xorrisofs is installed; hdiutil and mkisofs fail; none.
IsoTools ==
    { [hdiutil |-> "ok", mkisofs |-> "unavailable", xorrisofs |-> "unavailable"],
      [hdiutil |-> "nonzero", mkisofs |-> "ok", xorrisofs |-> "unavailable"],
      [hdiutil |-> "unavailable", mkisofs |-> "unavailable", xorrisofs |-> "ok"],
      [hdiutil |-> "nonzero", mkisofs |-> "nonzero", xorrisofs |-> "ok"],
      [hdiutil |-> "unavailable", mkisofs |-> "unavailable",
       xorrisofs |-> "unavailable"] }

\* What workdir holds before the run: nothing; the two directories; or what
\* an earlier run for MaxCount VMs left, with the first overlay disk.
InitialTrees ==
    { {},
      {OverlaysDir, SeedsDir},
      {OverlaysDir, SeedsDir, OvlDisk(1)} \cup { SeedInit(n) : n \in 1..MaxCount } }

\* The host: the tree under workdir, which of the base files is missing,
\* whether ifconfig is installed, and how each tool ends.
OvHosts ==
    { [tree |-> t, missing |-> b, ifconfig |-> f, qemu_img |-> q, qemu |-> e,
       hdiutil |-> iso.hdiutil, mkisofs |-> iso.mkisofs,
       xorrisofs |-> iso.xorrisofs] :
         t \in InitialTrees,
         b \in {"none", "base_qcow2", "vars_fd", "bios_fd"},
         f \in BOOLEAN, q \in {"ok", "nonzero"}, e \in {"ok", "nonzero"},
         iso \in IsoTools }

OvInit ==
    /\ MainIdle
    /\ sw = SwIdle
    /\ arp = ArpIdle
    /\ runs = RunsIdle
    /\ cidr = CidrIdle
    /\ ov_pc = "start"
    /\ ov_args \in [count : 0..MaxCount, dry_run : BOOLEAN,
                     no_daemonize : BOOLEAN]
    /\ ov_host \in OvHosts
    /\ ov_fs = ov_host.tree
    /\ ov_touched = {}
    /\ ov_cmds = <<>>
    /\ ov_i = 0
    /\ ov_rows = <<>>
    /\ ov_out = <<>>

otherVars == <<pc, name, rng, mac, setup, launched, stderr, exitCode, exc,
               subnet, mac_lower, ip_found, now, next_sweep, timeout, probes,
               info, hist, sw, arp, runs, cidr>>

\* main, lines 188-193: the two directories are made before anything else.
OvEnsureDirs ==
    /\ ov_pc = "start"
    /\ LET o == EnsureDir(OverlaysDir, ov_fs, ov_touched)
           d == EnsureDir(SeedsDir, o.fs, o.touched)
       IN  /\ ov_fs' = d.fs
           /\ ov_touched' = d.touched
    /\ ov_pc' = "ifconfig"
    /\ UNCHANGED <<ov_args, ov_host, ov_cmds, ov_i, ov_rows, ov_out>>
    /\ UNCHANGED otherVars

\* main, lines 199-201: if shutil.which("ifconfig"): run(["ifconfig"])
OvIfconfig ==
    /\ ov_pc = "ifconfig"
    /\ IF ov_host.ifconfig
       THEN /\ ov_out' = Append(ov_out, OvLine("[*] Host interfaces", 0))
            /\ ov_cmds' = ov_cmds \o OvRun("ifconfig", "ok", FALSE, 0).cmds
       ELSE UNCHANGED <<ov_out, ov_cmds>>
    /\ ov_pc' = "check"
    /\ UNCHANGED <<ov_args, ov_host, ov_fs, ov_touched, ov_i, ov_rows>>
    /\ UNCHANGED otherVars

\* main, lines 202-216: sys.exit when a base file is missing, else the
\* banner.
OvCheckBase ==
    /\ ov_pc = "check"
    /\ IF ov_host.missing # "none"
       THEN /\ ov_pc' = "exit"
            /\ UNCHANGED ov_out
       ELSE /\ ov_pc' = "for"
            /\ ov_out' = Append(ov_out, OvLine("[*] Creating VM(s)", 0))
    /\ UNCHANGED <<ov_args, ov_host, ov_fs, ov_touched, ov_cmds, ov_i, ov_rows>>
    /\ UNCHANGED otherVars

\* main, line 219: for i in range(1, args.count + 1)
OvFor ==
    /\ ov_pc = "for"
    /\ IF ov_i < ov_args.count
       THEN /\ ov_i' = ov_i + 1
            /\ ov_pc' = "overlay"
       ELSE /\ ov_pc' = "csv"
            /\ UNCHANGED ov_i
    /\ UNCHANGED <<ov_args, ov_host, ov_fs, ov_touched, ov_cmds, ov_rows, ov_out>>
    /\ UNCHANGED otherVars

\* main, lines 229-236: 1) Create overlay qcow2
OvOverlay ==
    /\ ov_pc = "overlay"
    /\ IF ov_args.dry_run
       THEN /\ ov_out' = Append(ov_out, OvLine("DRYRUN: qemu-img create", ov_i))
            /\ ov_pc' = "seed"
            /\ UNCHANGED <<ov_fs, ov_touched, ov_cmds>>
       ELSE IF OvlDisk(ov_i) \in ov_fs
       THEN /\ ov_out' = Append(ov_out, OvLine("[!] Overlay exists", ov_i))
            /\ ov_pc' = "seed"
            /\ UNCHANGED <<ov_fs, ov_touched, ov_cmds>>
       ELSE LET r == OvRun("qemu-img create", ov_host.qemu_img, TRUE, ov_i)
            IN  /\ ov_cmds' = ov_cmds \o r.cmds
                /\ ov_out' = ov_out \o r.out
                /\ IF r.raised
                   THEN /\ ov_pc' = "raised"
                        /\ UNCHANGED <<ov_fs, ov_touched>>
                   ELSE /\ ov_pc' = "seed"
                        /\ ov_fs' = ov_fs \cup {OvlDisk(ov_i)}
                        /\ ov_touched' = ov_touched \cup {OvlDisk(ov_i)}
    /\ UNCHANGED <<ov_args, ov_host, ov_i, ov_rows>>
    /\ UNCHANGED otherVars

\* main, lines 238-255: 2) Render seed-init files.  The directory is made
\* first, whatever args.dry_run is.
OvSeedInit ==
    /\ ov_pc = "seed"
    /\ LET d == EnsureDir(SeedInit(ov_i), ov_fs, ov_touched)
       IN  IF ov_args.dry_run
           THEN /\ ov_out' = Append(ov_out, OvLine("DRYRUN: write seed-init", ov_i))
                /\ ov_fs' = d.fs
                /\ ov_touched' = d.touched
           ELSE /\ ov_fs' = d.fs \cup {SeedFiles(ov_i)}
                /\ ov_touched' = d.touched \cup {SeedFiles(ov_i)}
                /\ UNCHANGED ov_out
    /\ ov_pc' = "iso"
    /\ UNCHANGED <<ov_args, ov_host, ov_cmds, ov_i, ov_rows>>
    /\ UNCHANGED otherVars

\* main, lines 257-261: 3) Build seed iso
OvSeedIso ==
    /\ ov_pc = "iso"
    /\ IF ov_args.dry_run
       THEN /\ ov_out' = Append(ov_out, OvLine("DRYRUN: hdiutil makehybrid", ov_i))
            /\ ov_pc' = "qemu"
            /\ UNCHANGED <<ov_fs, ov_touched, ov_cmds>>
       ELSE LET r == BuildSeedIso(ov_host, ov_i)
            IN  /\ ov_cmds' = ov_cmds \o r.cmds
                /\ ov_out' = ov_out \o r.out
                /\ IF r.raised
                   THEN /\ ov_pc' = "raised"
                        /\ UNCHANGED <<ov_fs, ov_touched>>
                   ELSE /\ ov_pc' = "qemu"
                        /\ ov_fs' = ov_fs \cup {SeedIso(ov_i)}
                        /\ ov_touched' = ov_touched \cup {SeedIso(ov_i)}
    /\ UNCHANGED <<ov_args, ov_host, ov_i, ov_rows>>
    /\ UNCHANGED otherVars

\* rows.append({"NAME": name, ..., "PID": pid_value})
OvRow(n, pid_value) == [n |-> n, pid |-> pid_value]

\* main, lines 263-301: 4) Launch QEMU, and the row of the VM.  With
\* -daemonize QEMU leaves its PID file.
OvLaunch ==
    /\ ov_pc = "qemu"
    /\ IF ov_args.dry_run
       THEN /\ ov_out' = Append(ov_out, OvLine("DRYRUN: sudo qemu-system-aarch64", ov_i))
            /\ ov_rows' = Append(ov_rows, OvRow(ov_i, ""))
            /\ ov_pc' = "for"
            /\ UNCHANGED <<ov_fs, ov_touched, ov_cmds>>
       ELSE IF SeedIso(ov_i) \notin ov_fs
       THEN /\ ov_pc' = "raised"
            /\ UNCHANGED <<ov_fs, ov_touched, ov_cmds, ov_rows, ov_out>>
       ELSE LET info_cmds == IF ov_host.hdiutil # "unavailable"
                             THEN OvRun("hdiutil imageinfo", "ok", FALSE, ov_i).cmds
                             ELSE <<>>
                r == OvRun("sudo qemu-system-aarch64", ov_host.qemu, TRUE, ov_i)
                left == IF ov_args.no_daemonize THEN {} ELSE {Pidfile(ov_i)}
            IN  /\ ov_cmds' = ov_cmds \o info_cmds \o r.cmds
                /\ ov_out' = ov_out \o r.out
                /\ IF r.raised
                   THEN /\ ov_pc' = "raised"
                        /\ UNCHANGED <<ov_fs, ov_touched, ov_rows>>
                   ELSE /\ ov_pc' = "for"
                        /\ ov_fs' = ov_fs \cup left
                        /\ ov_touched' = ov_touched \cup left
                        /\ ov_rows' = Append(ov_rows,
                              OvRow(ov_i, IF Pidfile(ov_i) \in ov_fs \cup left
                                          THEN "pid" ELSE ""))
    /\ UNCHANGED <<ov_args, ov_host, ov_i>>
    /\ UNCHANGED otherVars

\* main, lines 303-311: 5) Write instances.csv
OvCsv ==
    /\ ov_pc = "csv"
    /\ IF ov_args.dry_run
       THEN /\ ov_out' = Append(ov_out, OvLine("DRYRUN: would write", 0))
            /\ UNCHANGED <<ov_fs, ov_touched>>
       ELSE /\ ov_fs' = ov_fs \cup {CsvPath}
            /\ ov_touched' = ov_touched \cup {CsvPath}
            /\ UNCHANGED ov_out
    /\ ov_pc' = "summary"
    /\ UNCHANGED <<ov_args, ov_host, ov_cmds, ov_i, ov_rows>>
    /\ UNCHANGED otherVars

\* main, lines 313-318: the summary, one line for each row.
OvSummary ==
    /\ ov_pc = "summary"
    /\ ov_out' = ov_out \o <<OvLine("Summary", 0)>>
                   \o [k \in 1..Len(ov_rows) |-> OvLine("row", ov_rows[k].n)]
                   \o <<OvLine("Instances file", 0)>>
    /\ ov_pc' = "done"
    /\ UNCHANGED <<ov_args, ov_host, ov_fs, ov_touched, ov_cmds, ov_i, ov_rows>>
    /\ UNCHANGED otherVars

OvNext ==
    \/ OvEnsureDirs
    \/ OvIfconfig
    \/ OvCheckBase
    \/ OvFor
    \/ OvOverlay
    \/ OvSeedInit
    \/ OvSeedIso
    \/ OvLaunch
    \/ OvCsv
    \/ OvSummary

SpecOverlays == OvInit /\ [][OvNext]_vars

(***************************************************************************)
(* Properties                                                              *)
(***************************************************************************)

\* The attempt has begun: main has reached its discovery loop.
Entered == hist.phase # "NOT_STARTED"

\* The process has ended: main returned, or the handler exited.
Over == pc \in {"done", "exited"}

\* C1: every discovery attempt ends in FOUND or in TIMED_OUT, and in no
\* third way.
C1_EndsFoundOrTimedOut ==
    (Entered /\ Over) => hist.phase \in {"FOUND", "TIMED_OUT"}

\* Scenario B at its end: timeout 2 s, a subnet resolved (and the host
\* address resolved again at each sweep), no lookup ever matching.
ScenarioBEnded ==
    /\ timeout = 4
    /\ Truthy(subnet)
    /\ pc = "done"
    /\ hist.phase # "FOUND"
    /\ hist.sweeps = hist.bursts

\* C2, as claimed: scenario B ends TIMED_OUT after exactly one sweep, fired
\* at loop start, in the first iteration.
C2_OneSweepAtLoopStart ==
    ScenarioBEnded =>
        /\ hist.phase = "TIMED_OUT"
        /\ hist.sweeps = 1
        /\ hist.firstSweepIter = 1
        /\ hist.firstSweepAt = 0

\* C2, amended: scenario B ends TIMED_OUT after exactly one sweep, which is
\* fired no sooner than 1 s after the loop started: in the third iteration
\* when the calls before it took no time.
C2_OneSweepAfterDelay ==
    ScenarioBEnded =>
        /\ hist.phase = "TIMED_OUT"
        /\ hist.sweeps = 1
        /\ hist.firstSweepAt >= FirstSweepDelay
        /\ (hist.firstSweepAt = (hist.firstSweepIter - 1) * PollSleep
               => hist.firstSweepIter = 3)

C2_Witness == ScenarioBEnded /\ hist.firstSweepIter = 3

\* The sweep's trigger: no match in this iteration, a subnet, and the
\* interval elapsed since the previous sweep returned.  Without a subnet:
\* no sweep, and one lookup in every iteration.
SweepGuard ==
    /\ pc = "sweep" =>
          /\ hist.lastIp = None
          /\ Truthy(subnet)
          /\ (hist.sweeps = 0 \/ now >= hist.lastSweepEnd + SweepEvery)
    /\ (Entered /\ ~Truthy(subnet)) =>
          /\ hist.sweeps = 0
          /\ hist.lookups = IF pc = "lookup" THEN hist.iter - 1 ELSE hist.iter

\* C4: a sweep is triggered only after a lookup without a match, with a
\* subnet, the interval elapsed; so without a subnet there is a lookup in
\* every iteration, no sweep, and the attempt ends TIMED_OUT unless a
\* lookup matched.
C4_SweepOnlyWhenDue ==
    /\ SweepGuard
    /\ (Entered /\ ~Truthy(subnet) /\ Over /\ hist.phase # "FOUND")
          => hist.phase = "TIMED_OUT"

\* C3: the candidates are at most `limit` and all are hosts of the network.
C3_WindowWithinLimit ==
    sw.pc = "returned" =>
        /\ Len(sw.candidates) <= sw.limit
        /\ \A i \in 1..Len(sw.candidates) :
              \E j \in 1..Len(Hosts(sw.net)) : Hosts(sw.net)[j] = sw.candidates[i]

\* a.lower() == b.lower()
EqualIgnoringCase(a, b) ==
    /\ Len(a) = Len(b)
    /\ \A i \in 1..Len(a) : LowerChar(a[i]) = LowerChar(b[i])

IsMatch(line, target) ==
    line.kind = "entry" /\ EqualIgnoringCase(line.mac, target)

\* The ip of the first entry whose MAC equals the target ignoring case.
FirstEqualIgnoringCase(cache, target) ==
    IF \E i \in 1..Len(cache) : IsMatch(cache[i], target)
    THEN cache[CHOOSE i \in 1..Len(cache) :
                 /\ IsMatch(cache[i], target)
                 /\ \A j \in 1..(i - 1) : ~IsMatch(cache[j], target)].ip
    ELSE None

\* C5, as claimed: arp_lookup_by_mac, given the target in any letter case,
\* returns the first entry's ip whose MAC equals it ignoring case.
C5_LookupAnyCase ==
    (arp.pc = "call" /\ arp.direct # "pending") =>
        arp.direct = FirstEqualIgnoringCase(arp.cache, arp.target)

\* C5, amended: the lookup as main makes it, the target lower-cased first,
\* returns that ip; so does arp_lookup_by_mac itself for a target that is
\* already in lower case, and for any other target it finds nothing.
C5_MainLookupAnyCase ==
    /\ (arp.pc = "call" /\ arp.viaMain # "pending") =>
          arp.viaMain = FirstEqualIgnoringCase(arp.cache, arp.target)
    /\ (arp.pc = "call" /\ arp.direct # "pending") =>
          arp.direct = IF arp.target = Lower(arp.target)
                       THEN FirstEqualIgnoringCase(arp.cache, arp.target)
                       ELSE None

\* An upper-case target found by main's lookup behind a line that does not
\* match, in a cache written in the other case.
C5_Witness ==
    /\ arp.pc = "call"
    /\ arp.target = Upper(SampleMac)
    /\ arp.cache = <<Entry(OtherIp, OtherMac), Entry(GuestIp, SampleMac)>>
    /\ arp.viaMain = GuestIp

\* C6: no utility call of the discovery core raises out of main, and a
\* call that exits non-zero contributes no match.
C6_NoDataNeverFatal ==
    /\ hist.raisedBy \in {None, "launch_vm"}
    /\ hist.phase = "FOUND" => hist.matchStatus = "ok"

\* What the claim calls a setup failure: a required file missing, the
\* hypervisor failing to launch, no PID file.
MissingFile(h) == ~h.code \/ ~h.varsfd \/ ~h.gold

SetupBroken(h) == MissingFile(h) \/ h.qemu # "ok" \/ ~h.pidfile

\* C7: on a setup failure main raises with a message, the handler writes
\* it to stderr and exits 1, the loop is never entered (no lookup, no
\* sweep), and with a file missing the hypervisor is never run.
C7_SetupFailureIsFatal ==
    (pc \notin {"start", "launch"} /\ SetupBroken(setup)) =>
        /\ pc \in {"raised", "exited"}
        /\ exc \notin {None, ""}
        /\ pc = "raised" => ENABLED Handler
        /\ pc = "exited" =>
              /\ exitCode = 1
              /\ stderr = <<<<"ERROR: ", exc>>>>
        /\ ~Entered
        /\ hist.lookups = 0
        /\ hist.sweeps = 0
        /\ probes = <<>>
        /\ MissingFile(setup) => launched = 0

C7_Witness ==
    /\ pc = "exited"
    /\ setup.code /\ ~setup.varsfd
    /\ exitCode = 1
    /\ launched = 0

\* C8: in a terminal state the result is found exactly when the reported ip
\* is an address, that address is the one the matching lookup returned, and
\* a TIMED_OUT result carries neither address nor api_url.
C8_FoundIffAddress ==
    pc = "done" =>
        /\ hist.phase \in {"FOUND", "TIMED_OUT"}
        /\ hist.phase = "FOUND" <=> info.ip \notin {None, ""}
        /\ info.ip # None =>
              /\ info.ip = hist.lastIp
              /\ info.api_url = Url(hist.lastIp)
        /\ hist.phase = "TIMED_OUT" =>
              /\ info.ip = None
              /\ info.api_url = NoUrl

C8_Witness ==
    /\ pc = "done"
    /\ hist.phase = "FOUND"
    /\ info.ip = GuestIp
    /\ hist.iter > 1

\* A step of main's own thread of control.
MainStep ==
    \/ While
    \/ Lookup
    \/ Sweep
    \/ GraceReturn
    \/ Sleep
    \/ Report

\* C9: the sweep starts one probe per candidate and returns after the grace
\* period whatever the probes' states; main is never waiting on a probe.
C9_NeverWaitsOnProbes ==
    /\ pc = "grace" => Len(probes) = Len(hist.window)
    /\ pc \in {"while", "lookup", "sweep", "grace", "sleep", "report"} =>
          ENABLED MainStep
    /\ (pc = "sleep" /\ hist.lastFired) =>
          hist.lastSweepEnd = hist.sweepStart + Grace

\* The attempt has ended while a probe is still running.
C9_Witness ==
    /\ pc = "done"
    /\ Len(probes) = 2
    /\ probes[1] = "running"
    /\ probes[2] = "failed"

\* C10: two runs with the same name generate the same MAC.
C10_SameNameSameMac ==
    (/\ runs.pc = "active"
     /\ runs.a.pc = "done"
     /\ runs.b.pc = "done"
     /\ runs.a.name = runs.b.name) => runs.a.mac = runs.b.mac

C10_Witness ==
    /\ runs.pc = "active"
    /\ runs.a.pc = "done"
    /\ runs.b.pc = "done"
    /\ runs.a.name = runs.b.name
    /\ runs.a.rng0 # runs.b.rng0
    /\ runs.a.ifname # runs.b.ifname
    /\ runs.a.mac = runs.b.mac

\* A mask parses when it is a prefix length 0..32 written in digits, a dotted
\* netmask or a dotted hostmask.
MaskParses(t) ==
    \/ t.kind = "digits" /\ t.val \in 0..32
    \/ /\ t.kind = "dotted"
       /\ \E p \in 0..32 :
             t.octets = NetmaskOctets(p) \/ t.octets = HostmaskOctets(p)

\* The prefix length a parsing mask stands for.
MaskPrefixLength(t) ==
    IF t.kind = "digits" THEN t.val
    ELSE IF \E p \in 0..32 : t.octets = NetmaskOctets(p)
    THEN CHOOSE p \in 0..32 : t.octets = NetmaskOctets(p)
    ELSE CHOOSE p \in 0..32 : t.octets = HostmaskOctets(p)

\* The network starts on a multiple of its size and the address lies in it.
ContainsAddr(net, a) ==
    LET h == 32 - net.prefix
    IN  IF h >= 31 THEN net.base = 0
        ELSE /\ net.base % Pow2(h) = 0
             /\ net.base <= a
             /\ a - net.base < Pow2(h)

\* C11: for every host address a.b.c.d, cidr_from_ip_mask does not raise;
\* with a mask that fails to parse it returns a.b.c.0/24, and with a mask
\* that parses it returns the network containing the address with the
\* mask's prefix length.
C11_FallbackOrMaskNetwork ==
    (cidr.pc = "call" /\ cidr.direct.done) =>
        LET r == cidr.direct.res
            a == cidr.ip.val
        IN  /\ ~r.raised
            /\ ~MaskParses(cidr.mask) => r.net = Net(a - (a % 256), 24)
            /\ MaskParses(cidr.mask) =>
                   /\ r.net.prefix = MaskPrefixLength(cidr.mask)
                   /\ ContainsAddr(r.net, a)

\* A call with text that is no mask has returned the /24 of the address, and
\* the same address with a /30 netmask is reachable as well.
C11_Witness ==
    /\ cidr.pc = "call"
    /\ cidr.direct.done
    /\ cidr.ip = AddrText(Ip4(10, 193, 80, 65))
    /\ cidr.mask = GarbledText
    /\ cidr.direct.res = [raised |-> FALSE, net |-> Net(Ip4(10, 193, 80, 0), 24)]

\* The summary rows printed so far, as VM indexes.
SummaryRows == SelectSeq(ov_out, LAMBDA l : l.kind = "row")

\* With --dry-run, spawn_overlays creates or writes none of the files the
\* dry-run branches stand for (overlay disk, seed files, seed ISO, PID file,
\* instances.csv), runs none of the tools they name and appends one row per
\* VM.
DryRunGuardedSteps ==
    ov_args.dry_run =>
        /\ \A p \in ov_touched : p.kind \in {"overlays", "seeds", "seed-init"}
        /\ \A k \in 1..Len(ov_cmds) : ov_cmds[k] = "ifconfig"
        /\ ov_pc = "done" =>
               SummaryRows = [k \in 1..ov_args.count |-> OvLine("row", k)]

\* C12: with --dry-run, spawn_overlays runs no external command and leaves
\* the filesystem unchanged (no directory, overlay disk, seed file, seed ISO
\* or instances.csv is created or written, no QEMU process is launched), and
\* a run that reaches its end has printed one summary row per VM 1..count.
C12_DryRunExecutesNothing ==
    ov_args.dry_run =>
        /\ ov_cmds = <<>>
        /\ ov_touched = {}
        /\ ov_fs = ov_host.tree
        /\ ov_pc = "done" =>
               SummaryRows = [k \in 1..ov_args.count |-> OvLine("row", k)]

====
